---- MODULE Spec2Model ----
(***************************************************************************)
(* Langcon (src-tauri): the monitor thread's polling loop (monitor.rs),    *)
(* the shared AppState behind one mutex (state.rs) and the foreground      *)
(* commands that touch it (lib.rs), together with the operating-system     *)
(* facts the loop reads: the foreground window, its input-method mode and  *)
(* the cursor position.                                                    *)
(*                                                                         *)
(* Every critical section (one state.lock() scope) is one atomic action.   *)
(* Calls to the OS are made outside the lock and are separate steps, so    *)
(* foreground commands and user actions interleave with a tick exactly     *)
(* where the code lets them.                                               *)
(***************************************************************************)
EXTENDS Integers, Sequences, FiniteSets, TLC

(***************************************************************************)
(* Bounds of the model                                                     *)
(***************************************************************************)
\* user actions and foreground commands in one run
MaxEvents == 2

\* wall-clock instants are 0, 500, ..., MaxTime (milliseconds)
MaxTime == 1000

\* calls of Monitor::stop in one run
MaxStops == 2

\* commands in a behaviour of the save specification
MaxSaveEvents == 3

\* arguments of set_detect_interval (tenths of a second) and of
\* set_mouse_sensitivity (pixels); 0 is below the floor of either
IntervalInputs == {0, 10}
SensitivityInputs == {0, 10}

\* process names: one selected at start-up, one not
Names == {"notepad.exe", "other.exe"}
NoWindow == "(none)"

\* cursor positions the OS may report; their distance is exactly 5
Positions == {<<0, 0>>, <<3, 4>>}

\* mouse_sensitivity values of the loaded configuration
Sensitivities == {5}

(***************************************************************************)
(* Program constants and types                                             *)
(***************************************************************************)
STATUS_COOLDOWN_MS == 1000

ImeStatus == {"English", "Original", "Unknown"}

None == <<>>
Some(x) == <<x>>
IsSome(o) == o # <<>>
Unwrap(o) == o[1]

\* what can be in front: a window of a process in some mode, or no window
\* (the mode is then not read)
Foregrounds == (Names \X ImeStatus) \cup {<<NoWindow, "Unknown">>}

\* StatusMessage::with_values(key, [("name", name)])
StatusMessage(key, name) == [key |-> key, values |-> [name |-> name]]

\* FocusSnapshotInternal: the process is modelled by its name; updated_at is
\* written and formatted but never read by the loop, and is left out
FocusSnapshotInternal(process, ime, manual) ==
    [process |-> process, ime_status |-> ime, manual_override |-> manual]

VARIABLES
    \* AppState (state.rs), all behind the one mutex
    saved_config, draft_config, dirty, focus, manual_overrides,
    pending_process_refresh, last_cursor_pos, last_status_record,
    \* the operating system
    fg_window, fg_ime, cursor, now,
    \* the monitor thread: position in run_loop and its locals
    pc, loc,
    \* a toggle_ime command between its OS calls and its critical section
    toggle_snapshot,
    \* history: the user switched the tracked window away from English and
    \* nothing has released the engine since
    deliberate,
    \* how many more user actions and foreground commands this run may hold
    budget,
    \* who holds the parking_lot mutex around AppState between two steps
    lock,
    \* Monitor: the shutdown flag, whether the JoinHandle is still there, the
    \* position of a caller inside Monitor::stop, and the calls that returned
    shutdown, handle, stop_pc, stops,
    \* events: the snapshot of a toggle_ime command that has left its critical
    \* section and not yet emitted; the value of the last set_focus call; the
    \* payload of the last focus-changed event; the last status-message event
    \* with the time it was emitted at
    toggle_payload, focus_written, focus_event, status_event,
    \* what the last save_changes call returned
    save_result

appVars == <<saved_config, draft_config, dirty, focus, manual_overrides,
             pending_process_refresh, last_cursor_pos, last_status_record>>
cfgVars == <<saved_config, draft_config, dirty>>
osVars == <<fg_window, fg_ime, cursor, now>>
stopVars == <<shutdown, handle, stop_pc, stops>>
eventVars == <<toggle_payload, focus_written, focus_event, status_event, save_result>>
vars == <<appVars, osVars, pc, loc, toggle_snapshot, deliberate, budget, lock, stopVars, eventVars>>

(***************************************************************************)
(* Pure functions of the program                                           *)
(***************************************************************************)
\* state.lock() returns once no other guard is alive
CanLock == lock = "free"

\* the guard of the second critical section kept alive until the commit
GuardAfter_KeptToCommit(line) == IF line = 95 THEN "monitor" ELSE "free"

\* the holder of the mutex once the worker has left the critical section it
\* entered at `line` of monitor.rs: each guard is a local of a block or of a
\* match arm (lines 59-77, 82-85, 95-100, 201-204) or is dropped by hand
\* (line 194), before the next call to the OS
GuardAfter(line) == "free"

\* JoinHandle::join returning at once, as for a detached thread
Joined_Detached(position) == TRUE

\* JoinHandle::join returns when run_loop has returned
Joined(position) == position = "exited"

\* a take that leaves the request pending
take_process_refresh_request_Keeps(pending) ==
    [requested |-> pending, pending_process_refresh |-> pending]

\* AppState::take_process_refresh_request: what it returns and the flag it
\* leaves
take_process_refresh_request(pending) ==
    [requested |-> pending, pending_process_refresh |-> FALSE]

\* the draft in the place of the saved configuration
active_config_Draft == draft_config

\* AppState::active_config
active_config == saved_config

\* cfg.detect_interval_secs.max(0.1), in tenths of a second
interval_of(cfg) == IF cfg.detect_interval_secs > 1 THEN cfg.detect_interval_secs ELSE 1

\* AppState::manual_override_for
manual_override_for(process_name) == process_name \in manual_overrides

\* set_manual_override keeping no name but the one it is called with
OverridesAfterSet_OnlyNamed(overrides, process_name, enabled) ==
    IF enabled THEN {process_name} ELSE {}

\* the OverrideSet after AppState::set_manual_override
OverridesAfterSet(overrides, process_name, enabled) ==
    IF enabled THEN overrides \cup {process_name} ELSE overrides \ {process_name}

\* set_manual_override editing the mode of the snapshot along with its flag
FocusAfterSet_ResetsMode(f, process_name, enabled) ==
    IF IsSome(f) /\ IsSome(Unwrap(f).process) /\ Unwrap(Unwrap(f).process) = process_name
    THEN Some([Unwrap(f) EXCEPT !.manual_override = enabled, !.ime_status = "Unknown"])
    ELSE f

\* the stored snapshot after AppState::set_manual_override
FocusAfterSet(f, process_name, enabled) ==
    IF IsSome(f) /\ IsSome(Unwrap(f).process) /\ Unwrap(Unwrap(f).process) = process_name
    THEN Some([Unwrap(f) EXCEPT !.manual_override = enabled])
    ELSE f

\* f32 square root of a small perfect square
Sqrt(n) == CHOOSE r \in 0..n : r * r = n

\* monitor.rs distance
distance(a, b) ==
    LET dx == a[1] - b[1]
        dy == a[2] - b[2]
    IN Sqrt(dx * dx + dy * dy)

\* matches!(ime, ImeStatus::Original | ImeStatus::Unknown)
NotEnglish(ime) == ime \in {"Original", "Unknown"}

\* the hysteresis test with its two modes swapped
HysteresisFires_Swapped(prev_snapshot, name, ime) ==
    /\ IsSome(prev_snapshot)
    /\ IsSome(Unwrap(prev_snapshot).process)
    /\ Unwrap(Unwrap(prev_snapshot).process) = name
    /\ Unwrap(prev_snapshot).ime_status = "Original"
    /\ ime = "English"

\* the hysteresis test taking every reading other than English as a switch
HysteresisFires_AnyNonEnglish(prev_snapshot, name, ime) ==
    /\ IsSome(prev_snapshot)
    /\ IsSome(Unwrap(prev_snapshot).process)
    /\ Unwrap(Unwrap(prev_snapshot).process) = name
    /\ Unwrap(prev_snapshot).ime_status = "English"
    /\ ime # "English"

\* run_loop, lines 108-117
HysteresisFires(prev_snapshot, name, ime) ==
    /\ IsSome(prev_snapshot)
    /\ IsSome(Unwrap(prev_snapshot).process)
    /\ Unwrap(Unwrap(prev_snapshot).process) = name
    /\ Unwrap(prev_snapshot).ime_status = "English"
    /\ ime = "Original"

\* run_loop, lines 119-121
SelfClears(manual_change, ime) == manual_change /\ ime = "English"

\* the auto-switch rule taking no account of the override flag
AutoSwitchEligible_IgnoresOverride(use_auto_to_en, ime, manual_change) ==
    use_auto_to_en /\ NotEnglish(ime)

\* run_loop, lines 123-128
AutoSwitchEligible(use_auto_to_en, ime, manual_change) ==
    use_auto_to_en /\ NotEnglish(ime) /\ ~manual_change

\* the threshold test made exclusive
CursorMoved_Exclusive(last_cursor, position, sensitivity) ==
    IsSome(last_cursor) /\ distance(Unwrap(last_cursor), position) > sensitivity

\* the threshold test passing on the first reading, with nothing to compare
CursorMoved_FirstReading(last_cursor, position, sensitivity) ==
    IsSome(last_cursor) => distance(Unwrap(last_cursor), position) >= sensitivity

\* run_loop, lines 135-136
CursorMoved(last_cursor, position, sensitivity) ==
    IsSome(last_cursor) /\ distance(Unwrap(last_cursor), position) >= sensitivity

\* the cursor rule forcing the switch whatever the mode
CursorForcesSwitch_Always(ime) == ime \in ImeStatus

\* run_loop, line 138
CursorForcesSwitch(ime) == NotEnglish(ime)

\* the cooldown test made exclusive
should_emit_status_Exclusive(record, message, cooldown_ms, clock) ==
    IF /\ IsSome(record)
       /\ Unwrap(record).message.key = message.key
       /\ Unwrap(record).message.values = message.values
    THEN clock - Unwrap(record).at > cooldown_ms
    ELSE TRUE

\* the cooldown test letting every message through
should_emit_status_Always(record, message, cooldown_ms, clock) == TRUE

\* the cooldown applied to whatever message was recorded last
should_emit_status_AnyMessage(record, message, cooldown_ms, clock) ==
    IF IsSome(record)
    THEN clock - Unwrap(record).at >= cooldown_ms
    ELSE TRUE

\* AppState::should_emit_status
should_emit_status(record, message, cooldown_ms, clock) ==
    IF /\ IsSome(record)
       /\ Unwrap(record).message.key = message.key
       /\ Unwrap(record).message.values = message.values
    THEN clock - Unwrap(record).at >= cooldown_ms
    ELSE TRUE

\* AppState::record_status
record_status(message, clock) == Some([message |-> message, at |-> clock])

\* the mode after one VK_HANGUL key press
Flip(ime) == CASE ime = "English" -> "Original"
               [] ime = "Original" -> "English"
               [] OTHER -> ime

(***************************************************************************)
(* Initial state: AppState::new, AppContext::initialize                    *)
(***************************************************************************)
\* the locals of run_loop between two iterations
IdleLocals ==
    [selected_processes |-> {}, use_auto_to_en |-> FALSE, use_mouse_move |-> FALSE,
     sensitivity |-> 0, refresh_requested |-> FALSE, last_cursor |-> None,
     active |-> NoWindow, ime |-> "Unknown", prev_snapshot |-> None,
     manual_override_active |-> FALSE, process_selected |-> FALSE,
     hysteresis |-> FALSE, self_clear |-> FALSE, cursor_moved |-> FALSE,
     manual_change |-> FALSE, should_switch |-> FALSE, status_message |-> None,
     new_cursor |-> None, ensure_result |-> "not called", message_to_emit |-> None,
     committed |-> FALSE, saw_deliberate |-> FALSE,
     interval |-> 0, locks |-> 0, focus_changed |-> <<>>, enumerations |-> 0,
     cursor_at_decision |-> None]

\* the configurations load_or_create may hand to AppState::new (normalized)
InitialConfigs ==
    [selected_processes : {{"notepad.exe"}}, use_auto_to_en : BOOLEAN,
     use_mouse_move_event : BOOLEAN, mouse_sensitivity : Sensitivities,
     detect_interval_secs : {5}, start_with_windows : {FALSE}, language : {"en"}]

\* the fresh state with `events` commands and environment changes to come
InitWith(events) ==
    /\ saved_config \in InitialConfigs
    /\ draft_config = saved_config
    /\ dirty = FALSE
    /\ focus = None
    /\ manual_overrides = {}
    /\ pending_process_refresh = TRUE
    /\ last_cursor_pos = None
    /\ last_status_record = None
    /\ \E fg \in Foregrounds :
          /\ fg_window = fg[1]
          /\ fg_ime = fg[2]
    /\ cursor = <<0, 0>>
    /\ now = 0
    /\ pc = "snapshot"
    /\ loc = IdleLocals
    /\ toggle_snapshot = None
    /\ deliberate = FALSE
    /\ budget = events
    /\ lock = "free"
    /\ shutdown = FALSE
    /\ handle = TRUE
    /\ stop_pc = "idle"
    /\ stops = 0
    /\ toggle_payload = None
    /\ focus_written = None
    /\ focus_event = None
    /\ status_event = None
    /\ save_result = "none"

Init == InitWith(MaxEvents)

(***************************************************************************)
(* The monitor thread: one iteration of run_loop                           *)
(***************************************************************************)
\* lines 58-77: the first critical section
Snapshot ==
    /\ pc = "snapshot"
    /\ ~shutdown
    /\ CanLock
    /\ lock' = GuardAfter(59)
    /\ loc' = [IdleLocals EXCEPT
                 !.locks = 1,
                 !.interval = interval_of(active_config),
                 !.use_auto_to_en = active_config.use_auto_to_en,
                 !.use_mouse_move = active_config.use_mouse_move_event,
                 !.sensitivity = active_config.mouse_sensitivity,
                 !.selected_processes = active_config.selected_processes,
                 !.refresh_requested =
                     take_process_refresh_request(pending_process_refresh).requested,
                 !.last_cursor = last_cursor_pos]
    /\ pending_process_refresh' =
          take_process_refresh_request(pending_process_refresh).pending_process_refresh
    /\ pc' = IF loc'.refresh_requested THEN "enumerate" ELSE "observe"
    /\ UNCHANGED <<stopVars, cfgVars, focus, manual_overrides, last_cursor_pos,
                   last_status_record, osVars, toggle_snapshot, eventVars, deliberate, budget>>

\* lines 79-88: enumerate_gui_processes and, when it succeeds, the critical
\* section that stores the list (the list itself is not modelled)
Enumerate ==
    /\ pc = "enumerate"
    /\ \/ /\ CanLock
          /\ lock' = GuardAfter(82)
          /\ loc' = [loc EXCEPT !.locks = @ + 1, !.enumerations = @ + 1]
       \/ /\ loc' = [loc EXCEPT !.enumerations = @ + 1]
          /\ UNCHANGED lock
    /\ pc' = "observe"
    /\ UNCHANGED <<stopVars, cfgVars, focus, manual_overrides, pending_process_refresh,
                   last_cursor_pos, last_status_record, osVars, toggle_snapshot, eventVars,
                   deliberate, budget>>

\* lines 90-92: active_window_info returned Ok(Some(active)); ime_status
ObserveWindow ==
    /\ pc = "observe"
    /\ fg_window # NoWindow
    /\ loc' = [loc EXCEPT !.active = fg_window, !.ime = fg_ime,
                          !.saw_deliberate = deliberate]
    /\ pc' = "readprev"
    /\ UNCHANGED <<lock, stopVars, appVars, osVars, toggle_snapshot, eventVars, deliberate,
                   budget>>

\* line 200: active_window_info returned Ok(None)
ObserveNone ==
    /\ pc = "observe"
    /\ fg_window = NoWindow
    /\ pc' = "nofocus"
    /\ UNCHANGED <<lock, stopVars, appVars, osVars, loc, toggle_snapshot, eventVars,
                   deliberate, budget>>

\* line 205: active_window_info returned Err (process_name_for_pid failed)
ObserveErr ==
    /\ pc = "observe"
    /\ fg_window # NoWindow
    /\ pc' = "sleep"
    /\ UNCHANGED <<lock, stopVars, appVars, osVars, loc, toggle_snapshot, eventVars,
                   deliberate, budget>>

\* a no-focus commit that leaves the stored snapshot in place
NoFocusCommit_KeepsPrevious(f) == f

\* line 202: set_focus(None) replaces the stored snapshot `f`
NoFocusCommit(f) == None

\* lines 200-204
CommitNoFocus ==
    /\ pc = "nofocus"
    /\ CanLock
    /\ lock' = GuardAfter(201)
    /\ focus' = NoFocusCommit(focus)
    /\ focus_written' = Some(focus')
    /\ focus_event' = Some(None)
    /\ loc' = [loc EXCEPT !.committed = TRUE, !.locks = @ + 1,
                          !.focus_changed = Append(@, None)]
    /\ pc' = "sleep"
    /\ UNCHANGED <<stopVars, cfgVars, manual_overrides, pending_process_refresh,
                   last_cursor_pos, last_status_record, osVars, toggle_snapshot,
                   toggle_payload, status_event, save_result, deliberate, budget>>

\* lines 102-148: the decision, from the values read and the cursor reading
\* `position` (None when current_cursor_pos is not called or fails)
Decide(l, prev_snapshot, manual_override_active, position) ==
    LET name == l.active
        ime == l.ime
        process_selected == name \in l.selected_processes
        hysteresis == process_selected /\ HysteresisFires(prev_snapshot, name, ime)
        mc1 == IF hysteresis THEN TRUE ELSE manual_override_active
        self_clear == process_selected /\ SelfClears(mc1, ime)
        mc2 == IF self_clear THEN FALSE ELSE mc1
        ss1 == process_selected /\ AutoSwitchEligible(l.use_auto_to_en, ime, mc2)
        moved == /\ process_selected
                 /\ l.use_mouse_move
                 /\ IsSome(position)
                 /\ CursorMoved(l.last_cursor, Unwrap(position), l.sensitivity)
        forced == moved /\ CursorForcesSwitch(ime)
    IN [l EXCEPT
          !.prev_snapshot = prev_snapshot,
          !.manual_override_active = manual_override_active,
          !.process_selected = process_selected,
          !.hysteresis = hysteresis,
          !.self_clear = self_clear,
          !.cursor_moved = moved,
          !.manual_change = IF moved THEN FALSE ELSE mc2,
          !.should_switch = IF forced THEN TRUE ELSE ss1,
          !.status_message =
              IF forced THEN Some(StatusMessage("toast.status.mouseMove", name)) ELSE None,
          !.new_cursor = IF process_selected /\ l.use_mouse_move /\ IsSome(position)
                         THEN position ELSE l.last_cursor]

\* the outcomes of current_cursor_pos at line 133
CursorReadings(l) ==
    IF l.active \in l.selected_processes /\ l.use_mouse_move
    THEN {None, Some(cursor)}
    ELSE {None}

\* lines 94-148: the second critical section, then the decision
ReadPrev ==
    /\ pc = "readprev"
    /\ CanLock
    /\ lock' = GuardAfter(95)
    /\ \E position \in CursorReadings(loc) :
          loc' = Decide([loc EXCEPT !.locks = @ + 1,
                                    !.cursor_at_decision = Some(cursor)],
                        focus, manual_override_for(loc.active), position)
    /\ pc' = IF loc'.should_switch THEN "actuate" ELSE "commit"
    /\ UNCHANGED <<stopVars, appVars, osVars, toggle_snapshot, eventVars, deliberate, budget>>

\* ime.rs ensure_english(hwnd) as one call: the results it can return and the
\* mode it leaves in the foreground window. The key presses go to whatever
\* window is in front; when that is no longer `hwnd` the loop reads one
\* window and toggles another.
EnsureEnglishOutcomes(same_window, ime) ==
    IF same_window
    THEN CASE ime = "English" -> {<<"Ok(false)", ime>>}
           [] ime = "Original" -> {<<"Ok(true)", "English">>, <<"Err", ime>>}
           [] OTHER -> {<<"Err", ime>>}
    ELSE {<<"Ok(false)", ime>>, <<"Ok(true)", Flip(ime)>>, <<"Err", Flip(ime)>>,
          <<"Err", ime>>}

\* the auto-switch message queued for every call, toggled or not
QueuedAfterEnsure_OnAttempt(result, queued, name) ==
    Some(StatusMessage("toast.status.autoSwitch", name))

\* lines 151-163: the message queued once ensure_english has returned `result`
QueuedAfterEnsure(result, queued, name) ==
    IF result = "Ok(true)"
    THEN Some(StatusMessage("toast.status.autoSwitch", name))
    ELSE queued

\* lines 150-164
Actuate ==
    /\ pc = "actuate"
    /\ \E outcome \in EnsureEnglishOutcomes(fg_window = loc.active, fg_ime) :
          /\ fg_ime' = outcome[2]
          /\ loc' = [loc EXCEPT
                       !.ensure_result = outcome[1],
                       !.status_message = QueuedAfterEnsure(outcome[1], @, loc.active),
                       !.saw_deliberate = @ /\ fg_ime' = fg_ime]
          /\ deliberate' = (deliberate /\ fg_ime' = fg_ime)
    /\ pc' = "commit"
    /\ UNCHANGED <<lock, stopVars, appVars, fg_window, cursor, now, toggle_snapshot,
                   eventVars, budget>>

\* the committed snapshot taking the mode the window is in at the commit
CommittedMode_AtCommit(l) == fg_ime

\* the mode written into the committed snapshot (line 171)
CommittedMode(l) == l.ime

\* lines 166-194: the last critical section. set_focus replaces the snapshot
\* that set_manual_override has just edited.
Commit ==
    /\ pc = "commit"
    /\ CanLock
    /\ lock' = GuardAfter(167)
    /\ LET name == loc.active
           snapshot == FocusSnapshotInternal(Some(name), CommittedMode(loc), loc.manual_change)
           emit == /\ IsSome(loc.status_message)
                   /\ should_emit_status(last_status_record, Unwrap(loc.status_message),
                                         STATUS_COOLDOWN_MS, now)
       IN /\ manual_overrides' = OverridesAfterSet(manual_overrides, name, loc.manual_change)
          /\ focus' = Some(snapshot)
          /\ focus_written' = Some(focus')
          /\ focus_event' = Some(focus')
          /\ last_cursor_pos' = loc.new_cursor
          /\ last_status_record' =
                IF emit THEN record_status(Unwrap(loc.status_message), now)
                ELSE last_status_record
          /\ loc' = [loc EXCEPT !.committed = TRUE,
                                !.locks = @ + 1,
                                !.focus_changed = Append(@, Some(snapshot)),
                                !.message_to_emit = IF emit THEN loc.status_message ELSE None]
    /\ pc' = "sleep"
    /\ UNCHANGED <<stopVars, cfgVars, pending_process_refresh, osVars,
                   toggle_snapshot, toggle_payload, status_event, save_result, deliberate, budget>>

\* lines 195-197: the last status-message event once `message_to_emit` has
\* been handled at time `clock`
StatusEventAfter(event, message_to_emit, clock) ==
    IF IsSome(message_to_emit)
    THEN Some([message |-> Unwrap(message_to_emit), at |-> clock])
    ELSE event

\* the end of an iteration throwing the unsaved draft away
Sleep_DiscardsDraft ==
    /\ pc = "sleep"
    /\ pc' = "snapshot"
    /\ loc' = IdleLocals
    /\ draft_config' = saved_config
    /\ dirty' = FALSE
    /\ status_event' = StatusEventAfter(status_event, loc.message_to_emit, now)
    /\ UNCHANGED <<lock, stopVars, saved_config, focus, manual_overrides,
                   pending_process_refresh, last_cursor_pos, last_status_record, osVars,
                   toggle_snapshot, toggle_payload, focus_written, focus_event, save_result,
                   deliberate, budget>>

\* lines 195-208: emit the status message, sleep, next iteration. The clock is
\* read only in the last critical section, so the time that passes between
\* two of them is accounted for here, in steps of 500 ms. It is read only
\* against the time of a recorded message, so it stays at 0 until there is one.
Sleep ==
    /\ pc = "sleep"
    /\ pc' = "snapshot"
    /\ loc' = IdleLocals
    /\ \E elapsed \in {0, 500, 1000} :
          /\ now + elapsed <= MaxTime
          /\ elapsed > 0 => IsSome(last_status_record)
          /\ now' = now + elapsed
    /\ status_event' = StatusEventAfter(status_event, loc.message_to_emit, now)
    /\ UNCHANGED <<lock, stopVars, appVars, fg_window, fg_ime, cursor, toggle_snapshot,
                   toggle_payload, focus_written, focus_event, save_result, deliberate,
                   budget>>

Tick ==
    \/ Snapshot \/ Enumerate \/ ObserveWindow \/ ObserveNone \/ ObserveErr
    \/ CommitNoFocus \/ ReadPrev \/ Actuate \/ Commit \/ Sleep

(***************************************************************************)
(* The operating system and the user                                       *)
(***************************************************************************)
\* the foreground window the engine has a snapshot of is a selected process
Tracked ==
    /\ fg_window \in saved_config.selected_processes
    /\ IsSome(focus)
    /\ Unwrap(focus).process = Some(fg_window)

\* whatever releases the engine from a deliberate change clears the history
Released ==
    /\ deliberate' = FALSE
    /\ loc' = [loc EXCEPT !.saw_deliberate = FALSE]

\* another window (of the same or another process, or none) comes to the front,
\* in whatever mode it is in
FocusChange ==
    /\ budget > 0
    /\ budget' = budget - 1
    /\ \E fg \in Foregrounds \ {<<fg_window, fg_ime>>} :
          /\ fg_window' = fg[1]
          /\ fg_ime' = fg[2]
    /\ Released
    /\ UNCHANGED <<lock, stopVars, appVars, cursor, now, pc, toggle_snapshot, eventVars>>

\* the user presses the Hangul key in the foreground window
UserToggleIme ==
    /\ budget > 0
    /\ budget' = budget - 1
    /\ fg_window # NoWindow
    /\ fg_ime \in {"English", "Original"}
    /\ fg_ime' = Flip(fg_ime)
    /\ deliberate' = (Tracked /\ fg_ime = "English")
    /\ loc' = [loc EXCEPT !.saw_deliberate = FALSE]
    /\ UNCHANGED <<lock, stopVars, appVars, fg_window, cursor, now, pc, toggle_snapshot,
                   eventVars>>

\* the user moves the mouse
CursorMove ==
    /\ budget > 0
    /\ budget' = budget - 1
    /\ \E p \in Positions \ {cursor} : cursor' = p
    /\ Released
    /\ UNCHANGED <<lock, stopVars, appVars, fg_window, fg_ime, now, pc, toggle_snapshot,
                   eventVars>>

Environment == FocusChange \/ UserToggleIme \/ CursorMove

(***************************************************************************)
(* Foreground commands (lib.rs)                                            *)
(***************************************************************************)
\* lib.rs set_manual_override
SetManualOverrideCmd ==
    /\ budget > 0
    /\ CanLock
    /\ budget' = budget - 1
    /\ \E process_name \in Names, enabled \in BOOLEAN :
          /\ manual_overrides' = OverridesAfterSet(manual_overrides, process_name, enabled)
          /\ focus' = FocusAfterSet(focus, process_name, enabled)
    /\ Released
    /\ UNCHANGED <<lock, stopVars, cfgVars, pending_process_refresh, last_cursor_pos,
                   last_status_record, osVars, pc, toggle_snapshot, eventVars>>

\* lib.rs toggle_ime, lines 253-263: the window is read, the key is sent, the
\* mode is read back
ToggleImeKey ==
    /\ budget > 0
    /\ budget' = budget - 1
    /\ toggle_snapshot = None
    /\ toggle_payload = None
    /\ fg_window # NoWindow
    /\ fg_ime' = Flip(fg_ime)
    /\ toggle_snapshot' = Some(FocusSnapshotInternal(Some(fg_window), fg_ime', FALSE))
    /\ deliberate' = (Tracked /\ fg_ime = "English" /\ fg_ime' = "Original")
    /\ loc' = [loc EXCEPT !.saw_deliberate = @ /\ fg_ime' = fg_ime]
    /\ UNCHANGED <<lock, stopVars, eventVars, appVars, fg_window, cursor, now, pc>>

\* lib.rs toggle_ime, lines 265-268: set_focus in a critical section of its
\* own
ToggleImeCommit ==
    /\ IsSome(toggle_snapshot)
    /\ CanLock
    /\ focus' = toggle_snapshot
    /\ focus_written' = Some(focus')
    /\ toggle_payload' = toggle_snapshot
    /\ toggle_snapshot' = None
    /\ UNCHANGED <<lock, stopVars, cfgVars, manual_overrides, pending_process_refresh,
                   last_cursor_pos, last_status_record, osVars, pc, loc, deliberate, budget,
                   focus_event, status_event, save_result>>

\* lib.rs toggle_ime, lines 270-279: the payload is built from the command's
\* own snapshot and emitted with the lock released
ToggleImeEmit ==
    /\ IsSome(toggle_payload)
    /\ focus_event' = Some(toggle_payload)
    /\ toggle_payload' = None
    /\ UNCHANGED <<lock, stopVars, appVars, osVars, pc, loc, toggle_snapshot, deliberate,
                   budget, focus_written, status_event, save_result>>

\* AppState::add_selected_process
AddSelectedProcess ==
    /\ budget > 0
    /\ CanLock
    /\ budget' = budget - 1
    /\ \E name \in Names :
          /\ name \notin draft_config.selected_processes
          /\ draft_config' = [draft_config EXCEPT !.selected_processes = @ \cup {name}]
          /\ dirty' = TRUE
    /\ UNCHANGED <<lock, stopVars, saved_config, focus, manual_overrides,
                   pending_process_refresh, last_cursor_pos, last_status_record, osVars,
                   pc, loc, toggle_snapshot, eventVars, deliberate>>

\* AppState::remove_selected_process
RemoveSelectedProcess ==
    /\ budget > 0
    /\ CanLock
    /\ budget' = budget - 1
    /\ \E name \in Names :
          /\ draft_config' = [draft_config EXCEPT !.selected_processes = @ \ {name}]
          /\ dirty' = (dirty \/ name \in draft_config.selected_processes)
          /\ manual_overrides' = manual_overrides \ {name}
          /\ \/ name \in draft_config.selected_processes
             \/ name \in manual_overrides
    /\ Released
    /\ UNCHANGED <<lock, stopVars, saved_config, focus, pending_process_refresh,
                   last_cursor_pos, last_status_record, osVars, pc,
                   toggle_snapshot, eventVars>>

\* config.rs SUPPORTED_LANGUAGES and FALLBACK_LANGUAGE
SUPPORTED_LANGUAGES == {"en", "ko", "ja", "zh"}
FALLBACK_LANGUAGE == "en"

\* the language strings a caller passes
LanguageInputs == {"ko", "KO", "fr"}

\* str::to_lowercase on those strings
to_lowercase(value) == IF value = "KO" THEN "ko" ELSE value

\* config.rs sanitize_language
sanitize_language(value) ==
    IF to_lowercase(value) \in SUPPORTED_LANGUAGES THEN to_lowercase(value)
    ELSE FALLBACK_LANGUAGE

\* AppConfig::normalize on the modelled fields
normalize(cfg) ==
    [cfg EXCEPT !.detect_interval_secs = IF @ <= 0 THEN 5 ELSE @,
                !.mouse_sensitivity = IF @ <= 0 THEN 100 ELSE @,
                !.language = sanitize_language(@)]

\* the purge keeping every override
retain_KeepsAll(overrides, selected_processes) == overrides

\* save_changes, lines 123-124: manual_overrides.retain(..contains(name))
retain(overrides, selected_processes) ==
    {name \in overrides : name \in selected_processes}

\* AppState::save_changes when ConfigManager::save succeeds
SaveChangesOk ==
    /\ budget > 0
    /\ CanLock
    /\ budget' = budget - 1
    /\ dirty
    /\ saved_config' = normalize(draft_config)
    /\ draft_config' = normalize(draft_config)
    /\ manual_overrides' = retain(manual_overrides, saved_config'.selected_processes)
    /\ dirty' = FALSE
    /\ save_result' = "Ok(true)"
    /\ Released
    /\ UNCHANGED <<lock, stopVars, focus, pending_process_refresh, last_cursor_pos,
                   last_status_record, osVars, pc, toggle_snapshot, toggle_payload,
                   focus_written, focus_event, status_event>>

\* a failing save that has already taken the draft for the saved configuration
SaveChangesErr_HalfSaved ==
    /\ budget > 0
    /\ CanLock
    /\ budget' = budget - 1
    /\ dirty
    /\ saved_config' = normalize(draft_config)
    /\ save_result' = "Err"
    /\ UNCHANGED <<lock, stopVars, draft_config, dirty, focus, manual_overrides,
                   pending_process_refresh, last_cursor_pos, last_status_record, osVars,
                   pc, loc, toggle_snapshot, toggle_payload, focus_written, focus_event,
                   status_event, deliberate>>

\* AppState::save_changes when ConfigManager::save fails: the `?` returns
\* before anything is assigned
SaveChangesErr ==
    /\ budget > 0
    /\ CanLock
    /\ budget' = budget - 1
    /\ dirty
    /\ save_result' = "Err"
    /\ UNCHANGED <<lock, stopVars, appVars, osVars, pc, loc, toggle_snapshot,
                   toggle_payload, focus_written, focus_event, status_event, deliberate>>

\* AppState::save_changes with nothing unsaved: lines 115-117 return Ok(false)
SaveChangesClean ==
    /\ budget > 0
    /\ CanLock
    /\ budget' = budget - 1
    /\ ~dirty
    /\ save_result' = "Ok(false)"
    /\ UNCHANGED <<lock, stopVars, appVars, osVars, pc, loc, toggle_snapshot,
                   toggle_payload, focus_written, focus_event, status_event, deliberate>>

\* AppState::discard_changes
DiscardChanges ==
    /\ budget > 0
    /\ CanLock
    /\ budget' = budget - 1
    /\ dirty
    /\ draft_config' = saved_config
    /\ dirty' = FALSE
    /\ UNCHANGED <<lock, stopVars, saved_config, focus, manual_overrides,
                   pending_process_refresh, last_cursor_pos, last_status_record, osVars,
                   pc, loc, toggle_snapshot, eventVars, deliberate>>

Commands ==
    \/ SetManualOverrideCmd \/ ToggleImeKey \/ ToggleImeCommit \/ ToggleImeEmit
    \/ AddSelectedProcess \/ RemoveSelectedProcess
    \/ SaveChangesOk \/ SaveChangesErr
    \/ DiscardChanges

Next == Tick \/ Environment \/ Commands

Spec == Init /\ [][Next]_vars

(***************************************************************************)
(* The commands that edit the draft configuration (state.rs 140-181)       *)
(***************************************************************************)
\* a setter editing the draft without raising dirty
DraftEdit_Silent(field, value) ==
    /\ draft_config' = [draft_config EXCEPT ![field] = value]
    /\ UNCHANGED <<lock, stopVars, saved_config, dirty, focus, manual_overrides,
                   pending_process_refresh, last_cursor_pos, last_status_record, osVars,
                   pc, loc, toggle_snapshot, eventVars, deliberate>>

\* what a setter leaves: the draft with `field` set and dirty raised when the
\* value differs, nothing touched otherwise
DraftEdit(field, value) ==
    /\ draft_config' = [draft_config EXCEPT ![field] = value]
    /\ dirty' = (dirty \/ draft_config[field] # value)
    /\ UNCHANGED <<lock, stopVars, saved_config, focus, manual_overrides,
                   pending_process_refresh, last_cursor_pos, last_status_record, osVars,
                   pc, loc, toggle_snapshot, eventVars, deliberate>>

\* AppState::set_use_auto_to_en
SetUseAutoToEn ==
    /\ budget > 0
    /\ CanLock
    /\ budget' = budget - 1
    /\ \E enabled \in BOOLEAN : DraftEdit("use_auto_to_en", enabled)

\* AppState::set_use_mouse_move_event
SetUseMouseMoveEvent ==
    /\ budget > 0
    /\ CanLock
    /\ budget' = budget - 1
    /\ \E enabled \in BOOLEAN : DraftEdit("use_mouse_move_event", enabled)

\* AppState::set_detect_interval
SetDetectInterval ==
    /\ budget > 0
    /\ CanLock
    /\ budget' = budget - 1
    /\ \E seconds \in IntervalInputs :
          DraftEdit("detect_interval_secs", IF seconds > 1 THEN seconds ELSE 1)

\* AppState::set_mouse_sensitivity
SetMouseSensitivity ==
    /\ budget > 0
    /\ CanLock
    /\ budget' = budget - 1
    /\ \E d \in SensitivityInputs :
          DraftEdit("mouse_sensitivity", IF d > 1 THEN d ELSE 1)

\* AppState::set_language behind lib.rs set_language, which sanitizes first
SetLanguage ==
    /\ budget > 0
    /\ CanLock
    /\ budget' = budget - 1
    /\ \E language \in LanguageInputs :
          DraftEdit("language", sanitize_language(sanitize_language(language)))

\* AppState::set_start_with_windows when set_autostart succeeds or is not
\* called
SetStartWithWindowsOk ==
    /\ budget > 0
    /\ CanLock
    /\ budget' = budget - 1
    /\ \E enabled \in BOOLEAN : DraftEdit("start_with_windows", enabled)

\* AppState::set_start_with_windows when set_autostart fails: the `?` returns
\* with the draft untouched
SetStartWithWindowsErr ==
    /\ budget > 0
    /\ CanLock
    /\ budget' = budget - 1
    /\ \E enabled \in BOOLEAN : draft_config.start_with_windows # enabled
    /\ UNCHANGED <<lock, stopVars, appVars, osVars, pc, loc, toggle_snapshot, eventVars,
                   deliberate>>

ConfigCommands ==
    \/ SetUseAutoToEn \/ SetUseMouseMoveEvent \/ SetDetectInterval \/ SetMouseSensitivity
    \/ AddSelectedProcess \/ RemoveSelectedProcess
    \/ SaveChangesOk \/ SaveChangesErr \/ SaveChangesClean \/ DiscardChanges

\* the worker and the commands of the settings window
NextConfig == Tick \/ ConfigCommands

SpecConfig == Init /\ [][NextConfig]_vars

\* the settings window alone: every command that edits, saves or discards
NextDraft ==
    \/ ConfigCommands
    \/ SetLanguage \/ SetStartWithWindowsOk \/ SetStartWithWindowsErr

SpecDraft == InitWith(MaxSaveEvents) /\ [][NextDraft]_vars

(***************************************************************************)
(* The process list: refresh requests (state.rs 243-245, lib.rs 235-249)   *)
(***************************************************************************)
\* AppState::request_process_refresh, the entry point AppContext::initialize
\* calls on the fresh state
RequestProcessRefresh ==
    /\ budget > 0
    /\ CanLock
    /\ budget' = budget - 1
    /\ pending_process_refresh' = TRUE
    /\ UNCHANGED <<lock, stopVars, cfgVars, focus, manual_overrides, last_cursor_pos,
                   last_status_record, osVars, pc, loc, toggle_snapshot, eventVars, deliberate>>

\* lib.rs refresh_processes: the command enumerates on its own thread and
\* stores the list (not modelled); it neither raises nor takes the request
RefreshProcesses ==
    /\ budget > 0
    /\ CanLock
    /\ budget' = budget - 1
    /\ UNCHANGED <<lock, stopVars, appVars, osVars, pc, loc, toggle_snapshot, eventVars,
                   deliberate>>

\* the worker and the callers that ask for the process list
NextRefresh == Tick \/ RequestProcessRefresh \/ RefreshProcesses

SpecRefresh == Init /\ [][NextRefresh]_vars

(***************************************************************************)
(* Saving: the allowlist commands, the override command and save_changes   *)
(* next to the worker                                                      *)
(***************************************************************************)
NextSave ==
    \/ Tick
    \/ SetManualOverrideCmd
    \/ AddSelectedProcess \/ RemoveSelectedProcess
    \/ SaveChangesOk \/ SaveChangesErr \/ SaveChangesClean \/ DiscardChanges

SpecSave == InitWith(MaxSaveEvents) /\ [][NextSave]_vars

(***************************************************************************)
(* Shutdown: Monitor::stop (monitor.rs 40-45) and the loop test (line 49)  *)
(***************************************************************************)
\* line 41: shutdown.store(true)
StopStore ==
    /\ stop_pc = "idle"
    /\ stops < MaxStops
    /\ shutdown' = TRUE
    /\ stop_pc' = "take"
    /\ UNCHANGED <<appVars, osVars, pc, loc, toggle_snapshot, eventVars, deliberate, budget, lock,
                   handle, stops>>

\* line 42: self.handle.take(); with no handle left the call returns
StopTake ==
    /\ stop_pc = "take"
    /\ handle' = FALSE
    /\ stop_pc' = IF handle THEN "join" ELSE "idle"
    /\ stops' = IF handle THEN stops ELSE stops + 1
    /\ UNCHANGED <<appVars, osVars, pc, loc, toggle_snapshot, eventVars, deliberate, budget, lock,
                   shutdown>>

\* line 43: handle.join(), then the call returns
StopJoin ==
    /\ stop_pc = "join"
    /\ Joined(pc)
    /\ stop_pc' = "idle"
    /\ stops' = stops + 1
    /\ UNCHANGED <<appVars, osVars, pc, loc, toggle_snapshot, eventVars, deliberate, budget, lock,
                   shutdown, handle>>

\* lines 49 and 211: the loop test finds the flag set and run_loop returns
LoopExit ==
    /\ pc = "snapshot"
    /\ shutdown
    /\ pc' = "exited"
    /\ UNCHANGED <<appVars, osVars, loc, toggle_snapshot, eventVars, deliberate, budget,
                   lock, stopVars>>

Stop == StopStore \/ StopTake \/ StopJoin

\* the monitor thread
Worker == Tick \/ LoopExit

\* the worker, the user at the keyboard and the mouse, and the owner of the
\* Monitor
NextShutdown == Worker \/ UserToggleIme \/ CursorMove \/ Stop

\* the worker thread is scheduled and its calls to the OS return; a caller
\* inside Monitor::stop is scheduled too
SpecShutdown ==
    /\ Init
    /\ [][NextShutdown]_vars
    /\ WF_vars(Worker)
    /\ WF_vars(StopTake \/ StopJoin)

(***************************************************************************)
(* Claims                                                                  *)
(***************************************************************************)
\* C1: the engine never fights a deliberate user change. Once the user has
\* switched the tracked, selected foreground window from English to
\* non-English (Hangul key or toggle_ime), and until the window changes, the
\* mode is English again, the cursor moves or a command clears the override
\* or saves a configuration, no tick that observed the window after the
\* change calls ensure_english.
C1_NeverFightsUser == ~(pc = "actuate" /\ loc.saw_deliberate /\ deliberate)

\* the tick in progress has taken its decision (lines 102-148 are behind it)
Decided == pc \in {"actuate", "commit", "sleep"} /\ loc.active # NoWindow

\* the tick in progress has left its last critical section
Committed == pc = "sleep" /\ loc.active # NoWindow /\ loc.committed

\* this step is the last critical section of a tick with a focused window
CommitStep == pc = "commit" /\ pc' = "sleep"

\* the snapshot the tick read names the process it observed, in mode `mode`
PrevWas(mode) ==
    /\ IsSome(loc.prev_snapshot)
    /\ Unwrap(loc.prev_snapshot).process = Some(loc.active)
    /\ Unwrap(loc.prev_snapshot).ime_status = mode

\* the tick called ensure_english
Invoked == loc.ensure_result # "not called"

MouseMoveMessage == Some(StatusMessage("toast.status.mouseMove", loc.active))
AutoSwitchMessage == Some(StatusMessage("toast.status.autoSwitch", loc.active))

\* what a commit step leaves for the observed process
CommitsOverride(flag) ==
    /\ (loc.active \in manual_overrides') = flag
    /\ IsSome(focus')
    /\ Unwrap(focus').process = Some(loc.active)
    /\ Unwrap(focus').manual_override = flag

\* C2 as stated: previous (P, English), current (P, anything but English), P
\* selected: the tick commits the override as true for P, should_switch is
\* false and ensure_english is not called.
C2_HysteresisAnyNonTarget ==
    [][(CommitStep /\ loc.process_selected /\ PrevWas("English") /\ loc.ime # "English")
        => (CommitsOverride(TRUE) /\ ~loc.should_switch /\ ~Invoked)]_vars

\* C2 amended: previous (P, English), current (P, Original), P selected and
\* the cursor rule not firing: the tick commits the override as true for P in
\* the OverrideSet and the FocusSnapshot, should_switch is false and
\* ensure_english is not called.
C2_Hysteresis ==
    [][(CommitStep /\ loc.process_selected /\ PrevWas("English") /\ loc.ime = "Original"
          /\ ~loc.cursor_moved)
        => (CommitsOverride(TRUE) /\ ~loc.should_switch /\ ~Invoked)]_vars

C2_Witness ==
    /\ Committed /\ loc.process_selected /\ PrevWas("English") /\ loc.ime = "Original"
    /\ ~loc.cursor_moved /\ ~loc.manual_override_active
    /\ loc.active \in manual_overrides

\* C3: a tick whose focused process is not selected does not call
\* ensure_english, and its commit leaves the OverrideSet as it found it.
C3_UnselectedLeavesOverrides ==
    [][(CommitStep /\ ~loc.process_selected)
        => (manual_overrides' = manual_overrides /\ ~Invoked)]_vars

\* C4: a tick that observes English in a selected process never calls
\* ensure_english and neither queues nor emits a status message.
C4_Idempotence ==
    (Decided /\ loc.process_selected /\ loc.ime = "English")
        => /\ pc # "actuate"
           /\ ~loc.should_switch
           /\ ~Invoked
           /\ loc.status_message = None
           /\ loc.message_to_emit = None

C4_Witness ==
    /\ Committed /\ loc.process_selected /\ loc.ime = "English"
    /\ loc.cursor_moved /\ loc.use_auto_to_en

\* C5: a tick that read the override flag of the focused process as true and
\* observed English commits the flag as false in the OverrideSet and in the
\* FocusSnapshot.
C5_SelfClear ==
    [][(CommitStep /\ loc.manual_override_active /\ loc.ime = "English")
        => CommitsOverride(FALSE)]_vars

\* the tick read the override as true and saw the cursor move by exactly the
\* sensitivity, in a selected process that is not in English
AtBoundary ==
    /\ loc.manual_override_active /\ loc.process_selected /\ loc.use_mouse_move
    /\ IsSome(loc.last_cursor) /\ IsSome(loc.new_cursor)
    /\ distance(Unwrap(loc.last_cursor), Unwrap(loc.new_cursor)) = loc.sensitivity
    /\ loc.ime # "English"

\* C6 as stated: at the boundary the override is cleared, ensure_english is
\* called and the message the tick has queued is the mouse-move message.
C6_BoundaryQueuesMouseMove ==
    (Decided /\ AtBoundary)
        => /\ ~loc.manual_change
           /\ loc.should_switch
           /\ pc # "actuate" => Invoked
           /\ loc.status_message = MouseMoveMessage

\* C6 amended: at the boundary the override is cleared, ensure_english is
\* called and the cursor rule queues the mouse-move message with the process
\* name; it is the tick's queued message unless ensure_english reports a
\* toggle, and then the auto-switch message has replaced it.
C6_Boundary ==
    (Decided /\ AtBoundary)
        => /\ ~loc.manual_change
           /\ loc.should_switch
           /\ pc = "actuate" => loc.status_message = MouseMoveMessage
           /\ pc # "actuate" =>
                /\ Invoked
                /\ loc.status_message =
                     IF loc.ensure_result = "Ok(true)" THEN AutoSwitchMessage
                     ELSE MouseMoveMessage

C6_Witness ==
    /\ Committed /\ AtBoundary /\ loc.ensure_result = "Err"
    /\ loc.message_to_emit = MouseMoveMessage

\* C7: a first tick (no snapshot yet, no override) that observes a selected
\* process outside English with auto-switch on calls ensure_english, and when
\* that reports a toggle the committed snapshot holds the resulting mode,
\* English, and manual_override false.
C7_ScenarioA ==
    [][(CommitStep /\ loc.prev_snapshot = None /\ loc.process_selected /\ loc.use_auto_to_en
          /\ loc.ime # "English" /\ ~loc.manual_override_active)
        => /\ Invoked
           /\ loc.ensure_result = "Ok(true)" =>
                /\ CommitsOverride(FALSE)
                /\ Unwrap(focus').ime_status = "English"]_vars

\* the status messages the loop builds
Messages ==
    {StatusMessage(key, name) :
        key \in {"toast.status.mouseMove", "toast.status.autoSwitch"}, name \in Names}

\* C8: with nothing recorded should_emit_status is true; for the recorded
\* message it is false while less than the cooldown has elapsed and true from
\* then on; for a message that differs in key or values it is true. A tick
\* with a queued message emits and records it exactly when that test passes.
C8_Debounce ==
    [][/\ \A m \in Messages :
            LET emit == should_emit_status(last_status_record, m, STATUS_COOLDOWN_MS, now)
            IN IF last_status_record = None THEN emit
               ELSE LET record == Unwrap(last_status_record)
                    IN /\ (record.message = m /\ now - record.at < STATUS_COOLDOWN_MS) => ~emit
                       /\ (record.message = m /\ now - record.at >= STATUS_COOLDOWN_MS) => emit
                       /\ (record.message.key # m.key) => emit
                       /\ (record.message.values # m.values) => emit
       /\ (CommitStep /\ IsSome(loc.status_message)) =>
            LET m == Unwrap(loc.status_message)
                pass == \/ last_status_record = None
                        \/ Unwrap(last_status_record).message # m
                        \/ now - Unwrap(last_status_record).at >= STATUS_COOLDOWN_MS
            IN IF pass
               THEN /\ loc'.message_to_emit = Some(m)
                    /\ last_status_record' = Some([message |-> m, at |-> now])
               ELSE /\ loc'.message_to_emit = None
                    /\ last_status_record' = last_status_record]_vars

\* a tick has just emitted again the message recorded a full cooldown before
\* (with the cursor rule off and one process selected throughout, the
\* auto-switch message for it is the only one there has been)
C8_Witness ==
    /\ Committed
    /\ ~loc.use_mouse_move /\ budget >= MaxEvents - 1
    /\ now >= STATUS_COOLDOWN_MS
    /\ IsSome(loc.message_to_emit)
    /\ last_status_record = Some([message |-> Unwrap(loc.message_to_emit), at |-> now])
    /\ loc.message_to_emit = AutoSwitchMessage
    /\ PrevWas("Original")

\* C9: the OverrideSet holds only names of the saved selected processes.
C9_OverridesSelected == manual_overrides \subseteq saved_config.selected_processes

\* C10: an Unknown reading makes a selected process eligible for the switch
\* (auto rule and cursor rule) but never sets the override: with a current or
\* a previous Unknown reading the hysteresis rule does not fire and the flag
\* is not raised by the tick.
C10_Unknown ==
    Decided =>
        /\ (loc.ime = "Unknown" /\ loc.process_selected /\ loc.use_auto_to_en
              /\ ~loc.manual_override_active) => loc.should_switch
        /\ (loc.ime = "Unknown" /\ loc.cursor_moved) => loc.should_switch
        /\ (loc.ime = "Unknown" \/ PrevWas("Unknown")) =>
              /\ ~loc.hysteresis
              /\ loc.manual_change => loc.manual_override_active

C10_Witness ==
    /\ Committed /\ loc.process_selected /\ PrevWas("English") /\ loc.ime = "Unknown"
    /\ ~loc.manual_change /\ Invoked

\* C11: a tick that finds no focused window goes from the query straight to
\* its commit: it stores "no snapshot" as the focus, leaves the OverrideSet,
\* the cursor position, the status record and the input mode as they were,
\* emits one focus-changed event with no snapshot, and has not called
\* ensure_english.
C11_NoFocusTick ==
    [][/\ (pc = "observe" /\ fg_window = NoWindow /\ pc' # pc) => pc' = "nofocus"
       /\ (pc = "nofocus" /\ pc' # pc) =>
            /\ pc' = "sleep"
            /\ focus' = None
            /\ manual_overrides' = manual_overrides
            /\ last_cursor_pos' = last_cursor_pos
            /\ last_status_record' = last_status_record
            /\ fg_ime' = fg_ime
            /\ loc'.focus_changed = <<None>>
            /\ loc'.message_to_emit = None
            /\ loc'.ensure_result = "not called"]_vars

\* a no-focus tick has committed over a snapshot, with an override, a cursor
\* position and a status record in place
C11_Witness ==
    /\ pc = "sleep" /\ loc.committed /\ loc.active = NoWindow
    /\ focus = None
    /\ manual_overrides # {}
    /\ IsSome(last_cursor_pos)
    /\ IsSome(last_status_record)

\* C12: ensure_english is called at most once in a tick and its result changes
\* nothing of what the tick has decided to commit. When it fails, no
\* auto-switch message is queued, the commit writes the override flag, the
\* snapshot with the mode read before the attempt and the cursor position as
\* decided, and the loop goes on to its sleep and its next iteration.
C12_ActuatorFailure ==
    [][/\ Invoked => pc \in {"commit", "sleep"}
       /\ (pc = "actuate" /\ pc' # pc) =>
            /\ ~Invoked
            /\ pc' = "commit"
            /\ loc'.active = loc.active /\ loc'.ime = loc.ime
            /\ loc'.manual_change = loc.manual_change
            /\ loc'.new_cursor = loc.new_cursor
            /\ loc'.ensure_result = "Err" => loc'.status_message = loc.status_message
       /\ loc.ensure_result = "Err" => loc.status_message # AutoSwitchMessage
       /\ (CommitStep /\ loc.ensure_result = "Err") =>
            /\ manual_overrides' =
                  OverridesAfterSet(manual_overrides, loc.active, loc.manual_change)
            /\ focus' = Some(FocusSnapshotInternal(Some(loc.active), loc.ime,
                                                   loc.manual_change))
            /\ last_cursor_pos' = loc.new_cursor
            /\ loc'.message_to_emit # AutoSwitchMessage
       /\ (pc = "sleep" /\ pc' # pc) => pc' = "snapshot"]_vars

\* a tick whose ensure_english failed has committed, and the mode of the
\* window is no longer the one the tick had read
C12_Witness ==
    /\ Committed /\ loc.ensure_result = "Err"
    /\ loc.ime = "Original" /\ fg_ime # loc.ime
    /\ focus = Some(FocusSnapshotInternal(Some(loc.active), "Original", FALSE))

\* C13: a tick whose active_window_info call fails ends like a no-focus tick:
\* when it reaches its sleep the stored focus is "no snapshot".
C13_QueryFailureIsNoFocus ==
    [][(pc = "observe" /\ fg_window # NoWindow /\ pc' = "sleep") => focus' = None]_vars

\* C14: every tick, on reaching its sleep, has emitted exactly one
\* focus-changed event, and the event carries the focus the tick has stored.
C14_OneFocusEventPerTick ==
    [][(pc # "sleep" /\ pc' = "sleep") => loc'.focus_changed = <<focus'>>]_vars

\* the configuration values the tick holds are those of the saved configuration
HoldsCurrentConfig ==
    /\ loc.selected_processes = saved_config.selected_processes
    /\ loc.use_auto_to_en = saved_config.use_auto_to_en
    /\ loc.use_mouse_move = saved_config.use_mouse_move_event
    /\ loc.sensitivity = saved_config.mouse_sensitivity

\* C15: a tick that commits has taken the lock exactly twice, and its inputs
\* are one atomic snapshot: at the moment it reads the previous snapshot and
\* the override flag, the configuration and the cursor position it read at
\* its start are still those of the state.
C15_TwoLocksAtomicInputs ==
    [][/\ (pc # "sleep" /\ pc' = "sleep" /\ loc'.committed) => loc'.locks = 2
       /\ (pc = "readprev" /\ pc' # pc) =>
            /\ HoldsCurrentConfig
            /\ loc.last_cursor = last_cursor_pos]_vars

\* where the worker is when it is inside, or between, its calls to the OS:
\* enumerate_gui_processes (line 80), active_window_info and ime_status
\* (lines 90-92), ensure_english (line 151), and past current_cursor_pos
\* (line 133) on its way to the commit
CallPositions == {"enumerate", "observe", "readprev", "actuate", "commit"}

\* C16: while the worker is at a call to the OS it holds no guard of the
\* state mutex, and a foreground command that needs the mutex can run.
C16_NoLockAcrossCalls ==
    pc \in CallPositions =>
        /\ lock = "free"
        /\ budget > 0 => ENABLED SetManualOverrideCmd

\* the worker is inside ensure_english and a command has changed, since the
\* tick read it, the override flag of the process the tick is acting on
C16_Witness ==
    /\ pc = "actuate"
    /\ lock = "free"
    /\ loc.manual_override_active # manual_override_for(loc.active)

\* a step of a caller inside Monitor::stop
StopStep == stop_pc' # stop_pc \/ shutdown' # shutdown \/ handle' # handle

\* C17: Monitor::stop sets the flag and returns only once run_loop has
\* returned; the worker is not interrupted (it leaves only at the loop test,
\* with the flag set) and after a stop has returned nothing of the tick
\* happens any more; the caller holds no guard of the state mutex while it
\* waits; a stop after the first changes nothing; and, the worker being
\* scheduled and its calls returning, every stop that has begun returns.
C17_CooperativeShutdown ==
    /\ [](stops > 0 => (pc = "exited" /\ shutdown /\ ~handle))
    /\ [](stop_pc = "join" => (shutdown /\ lock = "free"))
    /\ [][/\ (pc' = "exited" /\ pc # "exited") => (pc = "snapshot" /\ shutdown)
          /\ StopStep => UNCHANGED <<appVars, osVars, pc, loc>>
          /\ stops > 0 => UNCHANGED <<appVars, pc, loc, shutdown, handle>>]_vars
    /\ (stop_pc # "idle") ~> (stop_pc = "idle" /\ stops > 0 /\ pc = "exited")

\* a second stop has returned after a first one waited for a worker that had
\* committed a snapshot
C17_Witness ==
    /\ stops = 2 /\ stop_pc = "idle"
    /\ pc = "exited"
    /\ IsSome(focus)

\* the tick's configuration values after its first critical section are
\* those of `cfg`
TakesConfig(cfg) ==
    /\ loc'.selected_processes = cfg.selected_processes
    /\ loc'.use_auto_to_en = cfg.use_auto_to_en
    /\ loc'.use_mouse_move = cfg.use_mouse_move_event
    /\ loc'.sensitivity = cfg.mouse_sensitivity
    /\ loc'.interval = (IF cfg.detect_interval_secs > 1 THEN cfg.detect_interval_secs ELSE 1)

\* this step is the first critical section of a tick
SnapshotStep == pc = "snapshot" /\ pc' \in {"enumerate", "observe"}

C19_CommitKeepsCommandValue ==
    [][(CommitStep /\ ~loc.hysteresis /\ ~loc.self_clear /\ ~loc.cursor_moved)
        => manual_overrides' = manual_overrides]_vars

\* C20: whenever the stored snapshot names a process, its manual_override
\* field equals the OverrideSet's flag for that process.
C20_SnapshotMatchesOverrideSet ==
    (IsSome(focus) /\ IsSome(Unwrap(focus).process))
        => Unwrap(focus).manual_override = manual_override_for(Unwrap(Unwrap(focus).process))

\* C21: the worker is in enumerate_gui_processes only in a tick whose first
\* critical section found the request pending, and that section has taken
\* the request; a tick past that point has enumerated once when it found a
\* request and not at all when it found none; the state starts with a
\* request pending.
C21_RefreshOnRequest ==
    /\ pending_process_refresh = TRUE
    /\ [][(pc = "snapshot" /\ pc' # pc) =>
            /\ loc'.refresh_requested = pending_process_refresh
            /\ ~pending_process_refresh'
            /\ pc' = (IF pending_process_refresh THEN "enumerate" ELSE "observe")]_vars
    /\ [](pc = "snapshot" => loc.enumerations = 0)
    /\ [](pc = "enumerate" => (loc.refresh_requested /\ loc.enumerations = 0))
    /\ [](pc \in {"observe", "readprev", "nofocus", "actuate", "commit", "sleep"} =>
            loc.enumerations = (IF loc.refresh_requested THEN 1 ELSE 0))

\* a tick found a request made after the first enumeration, and is
\* enumerating for it; the request is no longer pending
C21_Witness ==
    /\ pc = "enumerate"
    /\ IsSome(focus)
    /\ ~pending_process_refresh

\* C22: a tick with a focused window commits the position the cursor had
\* when the tick took its decision, also when the process is not selected or
\* mouse-move detection is off, so that no position from before such ticks
\* is left for a later distance test.
C22_CursorFollowsEveryTick ==
    [][(CommitStep /\ ~(loc.process_selected /\ loc.use_mouse_move)
          /\ IsSome(last_cursor_pos))
        => last_cursor_pos' = loc.cursor_at_decision]_vars

\* this step holds a call of set_focus: the commit of a tick, with or without
\* a focused window, or the critical section of toggle_ime
SetFocusStep ==
    \/ CommitStep
    \/ (pc = "nofocus" /\ pc' = "sleep")
    \/ (IsSome(toggle_snapshot) /\ toggle_snapshot' = None)

C24_EngineOnlyReadsConfig ==
    [][pc' # pc => UNCHANGED <<saved_config, draft_config, dirty>>]_vars

\* a tick has called ensure_english and committed while a draft that differs
\* from the saved configuration was waiting
C24_Witness ==
    /\ Committed /\ Invoked
    /\ dirty /\ draft_config # saved_config

\* the override flag of the observed process after the hysteresis rule (lines
\* 108-117) and the self-clear rule (lines 119-121), from the values the tick
\* read
FlagAfterRules ==
    /\ \/ loc.manual_override_active
       \/ (PrevWas("English") /\ loc.ime = "Original")
    /\ loc.ime # "English"

\* the cursor reading of the tick is a threshold's distance away from the
\* remembered position, in a selected process outside English with the cursor
\* rule on
CursorOverrideInputs ==
    /\ loc.process_selected /\ loc.use_mouse_move
    /\ IsSome(loc.last_cursor) /\ IsSome(loc.new_cursor)
    /\ distance(Unwrap(loc.last_cursor), Unwrap(loc.new_cursor)) >= loc.sensitivity
    /\ loc.ime # "English"

\* C25: in a tick where the cursor rule does not fire, ensure_english is
\* called exactly when the process is selected, auto-switch is on, the mode is
\* Original or Unknown and the override flag after the hysteresis and
\* self-clear rules is false.
C25_SwitchDecision ==
    (Decided /\ ~CursorOverrideInputs)
        => /\ loc.should_switch
                <=> /\ loc.process_selected /\ loc.use_auto_to_en
                    /\ loc.ime \in {"Original", "Unknown"}
                    /\ ~FlagAfterRules
           /\ (pc = "actuate" \/ Invoked) <=> loc.should_switch

\* a tick with the cursor rule on but not firing has called ensure_english for
\* a process whose override the self-clear or a command had left false
C25_Witness ==
    /\ Committed /\ Invoked /\ loc.use_mouse_move /\ ~CursorOverrideInputs
    /\ IsSome(loc.last_cursor)

\* C26: the cursor rule queues its message only for a selected process with
\* the rule on, a remembered position, a reading at least the sensitivity away
\* from it and a mode other than English; with those inputs the tick calls
\* ensure_english whatever auto-switch and the override were, and the flag it
\* commits is false.
C26_CursorOverride ==
    Decided =>
        /\ loc.status_message = MouseMoveMessage => CursorOverrideInputs
        /\ CursorOverrideInputs =>
              /\ loc.should_switch
              /\ ~loc.manual_change
              /\ pc = "actuate" \/ Invoked
              /\ loc.committed =>
                    Unwrap(loc.focus_changed[Len(loc.focus_changed)]).manual_override = FALSE

\* the rule has fired and the tick has committed with auto-switch off and the
\* override read as true
C26_Witness ==
    /\ Committed /\ CursorOverrideInputs /\ Invoked
    /\ ~loc.use_auto_to_en /\ loc.manual_override_active
    /\ loc.active \notin manual_overrides

\* C27: a step of save_changes that returns Ok(true) leaves in the OverrideSet
\* only names of the selected processes just saved, and leaves every name of
\* that list in the set exactly when it was in it before.
C27_PurgeOnSave ==
    [][SaveChangesOk =>
         /\ manual_overrides' \subseteq saved_config'.selected_processes
         /\ \A name \in saved_config'.selected_processes :
               (name \in manual_overrides') <=> (name \in manual_overrides)]_vars

\* a save has just dropped the override of the focused process, which is not
\* selected: the snapshot still carries the flag the command wrote, the
\* OverrideSet no longer holds the name
C27_Witness ==
    /\ ~dirty /\ budget = 0
    /\ saved_config.selected_processes = {}
    /\ IsSome(focus)
    /\ Unwrap(focus).process = Some("other.exe")
    /\ Unwrap(focus).manual_override
    /\ manual_overrides = {}

\* C28: the tick's queued message is the auto-switch message for the observed
\* process exactly when ensure_english was called and returned Ok(true); the
\* tick emits nothing or the one message it queued; and a commit step that
\* emits a message found it passing the cooldown test and records it, with
\* the time, in the step that writes the snapshot.
C28_StatusMessagesPerTick ==
    /\ [](Decided =>
            /\ (loc.status_message = AutoSwitchMessage) <=> (loc.ensure_result = "Ok(true)")
            /\ loc.message_to_emit \in {None, loc.status_message})
    /\ [][(CommitStep /\ IsSome(loc'.message_to_emit)) =>
            LET m == Unwrap(loc'.message_to_emit)
            IN /\ loc.status_message = Some(m)
               /\ \/ last_status_record = None
                  \/ Unwrap(last_status_record).message # m
                  \/ now - Unwrap(last_status_record).at >= STATUS_COOLDOWN_MS
               /\ last_status_record' = Some([message |-> m, at |-> now])
               /\ IsSome(focus') /\ Unwrap(focus').process = Some(loc.active)]_vars

\* the cursor rule queued its message, ensure_english reported a toggle, and
\* the tick has emitted and recorded the auto-switch message in its place
C28_Witness ==
    /\ Committed /\ CursorOverrideInputs
    /\ loc.ensure_result = "Ok(true)"
    /\ loc.message_to_emit = AutoSwitchMessage
    /\ last_status_record = Some([message |-> Unwrap(AutoSwitchMessage), at |-> now])

\* C29: last_status_record holds at most one message; the only step that
\* changes it is a commit that emits, which replaces it with the emitted
\* message and the present time whatever it held; and every message other
\* than the recorded one passes should_emit_status, however recently it was
\* recorded itself.
C29_SingleSlot ==
    /\ [](/\ Len(last_status_record) <= 1
          /\ \A m \in Messages :
                (IsSome(last_status_record) /\ Unwrap(last_status_record).message # m)
                    => should_emit_status(last_status_record, m, STATUS_COOLDOWN_MS, now))
    /\ [][last_status_record' # last_status_record =>
            /\ CommitStep
            /\ IsSome(loc.status_message)
            /\ last_status_record' =
                  Some([message |-> Unwrap(loc.status_message), at |-> now])]_vars

\* a tick has just recorded a message less than a cooldown after the first
\* record (the clock leaves 0 only once there is a record, and the same
\* message would not have passed): that first message is no longer held and
\* would be emitted again at once
C29_Witness ==
    /\ Committed /\ IsSome(loc.message_to_emit)
    /\ 0 < now /\ now < STATUS_COOLDOWN_MS
    /\ last_status_record = Some([message |-> Unwrap(loc.message_to_emit), at |-> now])
    /\ loc.message_to_emit = AutoSwitchMessage
    /\ should_emit_status(last_status_record, Unwrap(MouseMoveMessage),
                          STATUS_COOLDOWN_MS, now)

\* C30: a step of the worker leaves every name other than the process the
\* tick observed in the OverrideSet exactly when it was in it before the step.
C30_OtherOverridesKept ==
    [][pc' # pc =>
         \A name \in Names :
            name # loc.active => ((name \in manual_overrides') <=> (name \in manual_overrides))]_vars

\* the snapshot the tick read was notepad.exe with its override on; the tick
\* has committed for other.exe, and the override of notepad.exe is still held
C30_Witness ==
    /\ Committed /\ loc.active = "other.exe"
    /\ IsSome(loc.prev_snapshot)
    /\ Unwrap(loc.prev_snapshot).process = Some("notepad.exe")
    /\ Unwrap(loc.prev_snapshot).manual_override
    /\ manual_overrides = {"notepad.exe"}
    /\ budget = 0

\* C31: a tick about to emit the status message that the last status-message
\* event carried does so at least STATUS_COOLDOWN_MS after that event.
C31_NotificationSpacing ==
    (pc = "sleep" /\ IsSome(loc.message_to_emit) /\ IsSome(status_event)
        /\ Unwrap(status_event).message = Unwrap(loc.message_to_emit))
        => now - Unwrap(status_event).at >= STATUS_COOLDOWN_MS

\* the auto-switch message for notepad.exe was the last one emitted, at time
\* 0, and a tick is emitting it again a cooldown later
C31_Witness ==
    /\ pc = "sleep" /\ loc.message_to_emit = AutoSwitchMessage
    /\ loc.active = "notepad.exe"
    /\ status_event = Some([message |-> Unwrap(AutoSwitchMessage), at |-> 0])
    /\ now = STATUS_COOLDOWN_MS

\* what a tick's decision is computed from: the configuration active_config
\* returns, the stored snapshot, the OverrideSet and the remembered cursor
DecisionInputs == <<saved_config, focus, manual_overrides, last_cursor_pos>>

\* a step of one of the commands that edit the draft
DraftEditStep ==
    \/ SetUseAutoToEn \/ SetUseMouseMoveEvent \/ SetDetectInterval \/ SetMouseSensitivity
    \/ AddSelectedProcess \/ RemoveSelectedProcess

\* C32: a step of a set_*, add or remove command leaves everything a tick
\* decides from as it was, and a discard_changes step likewise; only a
\* successful save_changes brings an edit in front of the engine.
C32_EditsWaitForSave ==
    [][(DraftEditStep \/ DiscardChanges) => UNCHANGED DecisionInputs]_vars

\* C33: whenever has_unsaved_changes is false the draft configuration equals
\* the saved configuration, whatever setters, allowlist commands, saves
\* (failing ones included) and discards have run.
C33_CleanMeansEqual == ~dirty => draft_config = saved_config

\* edits have been made and saved: nothing is unsaved and the saved language
\* is no longer the one the program started with
C33_Witness ==
    /\ ~dirty /\ save_result = "Ok(true)"
    /\ saved_config.language = "ko"
    /\ draft_config = saved_config
    /\ budget = 0

\* C34: a save_changes call whose ConfigManager::save fails returns an error
\* and leaves the saved configuration, the draft, the unsaved-changes flag
\* and the OverrideSet as they were; a call with nothing unsaved returns
\* Ok(false) and leaves them as they were.
C34_FailedSaveChangesNothing ==
    [][/\ SaveChangesErr =>
            /\ save_result' = "Err"
            /\ UNCHANGED <<saved_config, draft_config, dirty, manual_overrides>>
       /\ SaveChangesClean =>
            /\ save_result' = "Ok(false)"
            /\ UNCHANGED <<saved_config, draft_config, dirty, manual_overrides>>]_vars

\* a save has just failed with an edit unsaved and an override held: the edit
\* is still in the draft only and the override is still there
C34_Witness ==
    /\ save_result = "Err" /\ budget = 0
    /\ dirty /\ draft_config # saved_config
    /\ manual_overrides # {}

\* C35: whenever no command is between its set_focus call and its emit, the
\* payload of the last focus-changed event is the value of the last set_focus
\* call.
C35_EventsFollowWrites == toggle_payload = None => focus_event = focus_written

====
